---- MODULE Spec2Model ----
(***************************************************************************)
(* RuleIndex of bazel-gazelle's resolve package (resolve/index.go): rules  *)
(* are registered with AddRule, Finish computes the embed closures and     *)
(* builds the import index, FindRulesByImport and                          *)
(* FindRulesByImportWithConfig answer queries.                             *)
(***************************************************************************)
EXTENDS Integers, Sequences, FiniteSets, TLC

(***************************************************************************)
(* Bounds and input universe                                               *)
(***************************************************************************)

\* Largest number of rule records the index holds in the model: AddRule is
\* not taken when it would add one more.
MaxRules == 3

\* Largest number of times the body of collectEmbeds is run for one record
\* in the model: a call that would run it once more returns instead.
MaxBodyRuns == 2

\* Go's nil, for the absent resolver.
Nil == "nil"

\* A Go slice value: the nil slice, or a slice holding the elements s.
NilSlice == [isNil |-> TRUE, elems |-> <<>>]
Slice(s) == [isNil |-> FALSE, elems |-> s]

RepoName == "main"
Pkgs == {"p"}
Names == {"a", "b", "c"}
Kinds == {"go_library", "proto_library", "filegroup"}
Imps == {"x"}

Range(s) == {s[k] : k \in 1..Len(s)}

\* label.Label and label.New: an absolute label.
LabelNew(repo, pkg, name) ==
    [Repo |-> repo, Pkg |-> pkg, Name |-> name, Relative |-> FALSE]

\* A relative label (":name"), as label.Parse yields for a same-package target.
LabelRel(name) ==
    [Repo |-> "", Pkg |-> "", Name |-> name, Relative |-> TRUE]

\* label.Label.Abs: a relative label is completed with repo and pkg.
Abs(l, repo, pkg) ==
    IF ~l.Relative THEN l
    ELSE [Repo |-> repo, Pkg |-> pkg, Name |-> l.Name, Relative |-> FALSE]

\* The resolver the caller's mrslv function finds for a rule (by its kind);
\* a resolver is identified with its Name().
mrslv(r, pkgRel) ==
    CASE r.kind = "go_library" -> "go"
      [] r.kind = "proto_library" -> "proto"
      [] OTHER -> Nil

\* Resolver.Name
Name(rslv) == rslv

\* Resolver.Imports: nil or a list of ImportSpecs, a property of the rule.
Imports(rslv, c, r, f) == r.imps

\* Resolver.Embeds: the labels the rule embeds, as the resolver hands them out.
Embeds(rslv, r, from) == r.embs

ImportSpecs == [Lang : {"go", "proto"}, Imp : Imps]

\* What a rule of the given kind may return from Imports: nil, or its import
\* paths in the resolver's language; a go_library may also have none.
ImportLists(kind) ==
    LET lang == mrslv([kind |-> kind], "") IN
    IF lang = Nil THEN {NilSlice}
    ELSE {NilSlice}
         \cup {Slice(<<[Lang |-> lang, Imp |-> i]>>) : i \in Imps}
         \cup (IF lang = "go" THEN {Slice(<<>>)} ELSE {})

\* The labels a rule may name in its embed attribute: a is written in full
\* ("//p:a"), b relative to the package (":b"). Every rule, a and b included,
\* may embed either, so chains, shared targets, cycles and self-embeds occur.
EmbedTargets == {LabelNew(RepoName, "p", "a"), LabelRel("b")}

\* What the rule of the given name may return from Embeds: nothing, or one
\* label; rule c, which no rule embeds, may also embed both a and b.
EmbedLists(name) ==
    {<<>>}
    \cup {<<l>> : l \in EmbedTargets}
    \cup (IF name = "c"
          THEN {<<LabelNew(RepoName, "p", "a"), LabelRel("b")>>}
          ELSE {})

\* The rules a caller may pass to AddRule. Embeds is consulted only for
\* indexed rules, so the others carry the empty list.
Rules ==
    UNION {
      { [name |-> nk[1], kind |-> nk[2], imps |-> i, embs |-> e] :
          i \in ImportLists(nk[2]), e \in EmbedLists(nk[1]) } :
        nk \in Names \X Kinds }

RuleSet == {r \in Rules : r.imps.isNil => r.embs = <<>>}

Files == {[Pkg |-> p] : p \in Pkgs}

\* config.Config: the repository name and the language allow-list.
Configs == {[RepoName |-> RepoName, Langs |-> l] : l \in {<<>>, <<"go">>}}

\* The extensions handed to NewRuleIndex; cross tells whether the extension
\* implements CrossResolver.
Exts ==
    { <<[name |-> "x1", cross |-> TRUE], [name |-> "n", cross |-> FALSE],
        [name |-> "x2", cross |-> TRUE]>> }

VARIABLES
    rules,           \* ix.rules: the records, in insertion order
    labelMap,        \* ix.labelMap: label -> position of the record in rules
    importMap,       \* ix.importMap: ImportSpec -> positions of records
    crossResolvers,  \* ix.crossResolvers
    didFinish,       \* ix.didFinish
    aborted,         \* the process panicked
    call             \* the last call made on the index and what it returned

vars == <<rules, labelMap, importMap, crossResolvers, didFinish, aborted, call>>

\* A Go map with no entries (also the nil map, which reads the same).
EmptyMap == [k \in {} |-> 0]

\* m[k] of a Go map: the zero value when the key is absent.
MapGet(m, k, zero) == IF k \in DOMAIN m THEN m[k] ELSE zero

MapPut(m, k, v) == [x \in DOMAIN m \cup {k} |-> IF x = k THEN v ELSE m[x]]

(***************************************************************************)
(* NewRuleIndex                                                            *)
(***************************************************************************)
IsCrossResolver(e) == e.cross

NewRuleIndex(exts) ==
    [rules |-> <<>>, labelMap |-> EmptyMap, importMap |-> EmptyMap,
     crossResolvers |-> SelectSeq(exts, IsCrossResolver), didFinish |-> FALSE]

Init ==
    \E exts \in Exts :
        LET ix == NewRuleIndex(exts) IN
        /\ rules = ix.rules
        /\ labelMap = ix.labelMap
        /\ importMap = ix.importMap
        /\ crossResolvers = ix.crossResolvers
        /\ didFinish = ix.didFinish
        /\ aborted = FALSE
        /\ call = [op |-> "NewRuleIndex"]

(***************************************************************************)
(* AddRule                                                                 *)
(***************************************************************************)
\* A filter that lets every language through.
passesLanguageFilter_Always(langFilter, langName) == TRUE

passesLanguageFilter(langFilter, langName) ==
    \/ Len(langFilter) = 0
    \/ \E k \in 1..Len(langFilter) : langFilter[k] = langName

\* The language and imports AddRule computes for a rule (lines 141-148).
AddRuleLang(c, r, f) ==
    LET rslv == mrslv(r, f.Pkg) IN
    IF rslv # Nil THEN Name(rslv) ELSE ""

\* An AddRule that takes nil imports for the empty list.
AddRuleImps_NilIndexed(c, r, f) ==
    LET rslv == mrslv(r, f.Pkg) IN
    IF rslv # Nil /\ passesLanguageFilter(c.Langs, Name(rslv))
    THEN Slice(Imports(rslv, c, r, f).elems)
    ELSE NilSlice

AddRuleImps(c, r, f) ==
    LET rslv == mrslv(r, f.Pkg) IN
    IF rslv # Nil /\ passesLanguageFilter(c.Langs, Name(rslv))
    THEN Imports(rslv, c, r, f)
    ELSE NilSlice

NewRecord(c, r, f) ==
    [rule |-> r,
     label |-> LabelNew(c.RepoName, f.Pkg, r.name),
     file |-> f,
     importedAs |-> AddRuleImps(c, r, f).elems,
     embeds |-> <<>>,
     embedded |-> FALSE,
     didCollectEmbeds |-> FALSE,
     lang |-> AddRuleLang(c, r, f),
     bodyRuns |-> 0]

\* An AddRule in which a later registration of a label replaces the earlier.
AddRuleResult_LastWins(rs, lm, c, r, f) ==
    LET record == NewRecord(c, r, f) IN
    IF AddRuleImps(c, r, f).isNil
    THEN [rules |-> rs, labelMap |-> lm, status |-> "skipped"]
    ELSE IF record.label \in DOMAIN lm
    THEN [rules |-> [rs EXCEPT ![lm[record.label]] = record], labelMap |-> lm,
          status |-> "duplicate"]
    ELSE [rules |-> Append(rs, record),
          labelMap |-> MapPut(lm, record.label, Len(rs) + 1),
          status |-> "added"]

\* What AddRule leaves in ix.rules and ix.labelMap, and how it returned.
AddRuleResult(rs, lm, c, r, f) ==
    LET record == NewRecord(c, r, f) IN
    IF AddRuleImps(c, r, f).isNil
    THEN [rules |-> rs, labelMap |-> lm, status |-> "skipped"]
    ELSE IF record.label \in DOMAIN lm
    THEN [rules |-> rs, labelMap |-> lm, status |-> "duplicate"]
    ELSE [rules |-> Append(rs, record),
          labelMap |-> MapPut(lm, record.label, Len(rs) + 1),
          status |-> "added"]

\* What is observed of an AddRule call: whether the rule's Imports is nil,
\* whether a resolver was found that the caller's non-empty allow-list leaves
\* out, and how the call returned.
AddRuleCall(c, r, f, status) ==
    [op |-> "AddRule",
     nilImports |-> r.imps.isNil,
     excluded |-> /\ mrslv(r, f.Pkg) # Nil
                  /\ c.Langs # <<>>
                  /\ mrslv(r, f.Pkg) \notin Range(c.Langs),
     status |-> status]

\* An AddRule without the check of didFinish.
AddRule_NoPanic(c, r, f) ==
    /\ ~aborted
    /\ LET res == AddRuleResult(rules, labelMap, c, r, f) IN
       /\ res.status = "added" => Len(rules) < MaxRules
       /\ rules' = res.rules
       /\ labelMap' = res.labelMap
       /\ call' = AddRuleCall(c, r, f, res.status)
    /\ UNCHANGED <<importMap, crossResolvers, didFinish, aborted>>

AddRule(c, r, f) ==
    /\ ~aborted
    /\ IF didFinish
       THEN /\ aborted' = TRUE
            /\ call' = AddRuleCall(c, r, f, "panic")
            /\ UNCHANGED <<rules, labelMap>>
       ELSE LET res == AddRuleResult(rules, labelMap, c, r, f) IN
            /\ res.status = "added" => Len(rules) < MaxRules
            /\ rules' = res.rules
            /\ labelMap' = res.labelMap
            /\ call' = AddRuleCall(c, r, f, res.status)
            /\ UNCHANGED aborted
    /\ UNCHANGED <<importMap, crossResolvers, didFinish>>

(***************************************************************************)
(* Finish: collectEmbeds, buildImportIndex                                 *)
(***************************************************************************)

\* findRuleByLabel: the position of the record, 0 when there is none.
findRuleByLabel(lm, label, from) ==
    MapGet(lm, Abs(label, from.Repo, from.Pkg), 0)

\* A test of line 199 with the comparison turned round.
SameLanguage_Differs(resolver, erResolver) == Name(resolver) # Name(erResolver)

\* A closure that ignores the languages of the two rules.
SameLanguage_Always(resolver, erResolver) == TRUE

\* The test of line 199: the two rules' resolvers have the same name.
SameLanguage(resolver, erResolver) == Name(resolver) = Name(erResolver)

\* Line 201: the embedded rule's closure is appended to the embedding rule's.
FlattenedEmbeds(r, er) == r.embeds \o er.embeds

\* A rule that inherits only what the embedded rule's provider declared, not
\* what the embedded rule inherited in turn.
InheritedImports_DeclaredOnly(r, er) ==
    r.importedAs
      \o Imports(mrslv(er.rule, er.file.Pkg), [Langs |-> <<>>], er.rule,
                 er.file).elems

\* A rule that does not inherit the imports of the rules it embeds.
InheritedImports_Dropped(r, er) == r.importedAs

\* Line 203: the embedded rule's imports are appended to the embedding rule's.
InheritedImports(r, er) == r.importedAs \o er.importedAs

RECURSIVE collectEmbeds(_, _, _)
RECURSIVE collectEmbedsLoop(_, _, _, _, _)

\* A loop that does not first collect the closure of the embedded rule
\* (line 197 left out).
collectEmbedsLoop_NoRecursion(rs, lm, i, embedLabels, k) ==
    IF k > Len(embedLabels) THEN rs
    ELSE
      LET e == embedLabels[k]
          j == findRuleByLabel(lm, e, rs[i].label)
      IN
      IF j = 0 THEN collectEmbedsLoop(rs, lm, i, embedLabels, k + 1)
      ELSE
        LET resolver == mrslv(rs[i].rule, rs[i].file.Pkg)
            erResolver == mrslv(rs[j].rule, rs[j].file.Pkg)
            rs2 == IF SameLanguage(resolver, erResolver)
                   THEN LET m == [rs EXCEPT ![j].embedded = TRUE] IN
                        [m EXCEPT ![i].embeds = FlattenedEmbeds(m[i], m[j])]
                   ELSE rs
            rs3 == [rs2 EXCEPT
                      ![i].importedAs = InheritedImports(rs2[i], rs2[j])]
        IN collectEmbedsLoop(rs3, lm, i, embedLabels, k + 1)

\* The loop of collectEmbeds over embedLabels, from element k on; rs is the
\* heap of records, i the position of r.
collectEmbedsLoop(rs, lm, i, embedLabels, k) ==
    IF k > Len(embedLabels) THEN rs
    ELSE
      LET e == embedLabels[k]
          j == findRuleByLabel(lm, e, rs[i].label)
      IN
      IF j = 0 THEN collectEmbedsLoop(rs, lm, i, embedLabels, k + 1)
      ELSE
        LET rs1 == collectEmbeds(rs, lm, j)
            resolver == mrslv(rs1[i].rule, rs1[i].file.Pkg)
            erResolver == mrslv(rs1[j].rule, rs1[j].file.Pkg)
            rs2 == IF SameLanguage(resolver, erResolver)
                   THEN LET m == [rs1 EXCEPT ![j].embedded = TRUE] IN
                        [m EXCEPT ![i].embeds = FlattenedEmbeds(m[i], m[j])]
                   ELSE rs1
            rs3 == [rs2 EXCEPT
                      ![i].importedAs = InheritedImports(rs2[i], rs2[j])]
        IN collectEmbedsLoop(rs3, lm, i, embedLabels, k + 1)

\* A collectEmbeds that sets didCollectEmbeds when the loop is done.
collectEmbeds_FlagSetLast(rs, lm, i) ==
    IF rs[i].didCollectEmbeds THEN rs
    ELSE IF rs[i].bodyRuns >= MaxBodyRuns THEN rs
    ELSE
      LET r == rs[i]
          resolver == mrslv(r.rule, r.file.Pkg)
          embedLabels == Embeds(resolver, r.rule, r.label)
          rs1 == [rs EXCEPT ![i].embeds = embedLabels,
                            ![i].bodyRuns = @ + 1]
          rs2 == collectEmbedsLoop(rs1, lm, i, embedLabels, 1)
      IN [rs2 EXCEPT ![i].didCollectEmbeds = TRUE]

\* collectEmbeds on the record at position i. bodyRuns counts, for each
\* record, how often the body after the guard of line 185 was entered.
collectEmbeds(rs, lm, i) ==
    IF rs[i].didCollectEmbeds THEN rs
    ELSE IF rs[i].bodyRuns >= MaxBodyRuns THEN rs
    ELSE
      LET r == rs[i]
          resolver == mrslv(r.rule, r.file.Pkg)
          embedLabels == Embeds(resolver, r.rule, r.label)
          rs1 == [rs EXCEPT ![i].didCollectEmbeds = TRUE,
                            ![i].embeds = embedLabels,
                            ![i].bodyRuns = @ + 1]
      IN collectEmbedsLoop(rs1, lm, i, embedLabels, 1)

\* The loop of Finish over ix.rules, from position i on.
RECURSIVE FinishLoop(_, _, _)
FinishLoop(rs, lm, i) ==
    IF i > Len(rs) THEN rs
    ELSE FinishLoop(collectEmbeds(rs, lm, i), lm, i + 1)

\* The inner loop of buildImportIndex over r.importedAs, from element k on.
RECURSIVE indexImports(_, _, _, _, _)

\* An index built without the indexed set: a rule is appended once for
\* every occurrence of an ImportSpec in its importedAs.
indexImports_NoDedup(im, rs, i, k, indexed) ==
    IF k > Len(rs[i].importedAs) THEN im
    ELSE
      LET imp == rs[i].importedAs[k] IN
      indexImports(MapPut(im, imp, Append(MapGet(im, imp, <<>>), i)),
                   rs, i, k + 1, indexed \cup {imp})

\* An index that puts the latest rule first in its bucket.
indexImports_Prepend(im, rs, i, k, indexed) ==
    IF k > Len(rs[i].importedAs) THEN im
    ELSE
      LET imp == rs[i].importedAs[k] IN
      IF imp \in indexed THEN indexImports(im, rs, i, k + 1, indexed)
      ELSE indexImports(MapPut(im, imp, <<i>> \o MapGet(im, imp, <<>>)),
                        rs, i, k + 1, indexed \cup {imp})

indexImports(im, rs, i, k, indexed) ==
    IF k > Len(rs[i].importedAs) THEN im
    ELSE
      LET imp == rs[i].importedAs[k] IN
      IF imp \in indexed THEN indexImports(im, rs, i, k + 1, indexed)
      ELSE indexImports(MapPut(im, imp, Append(MapGet(im, imp, <<>>), i)),
                        rs, i, k + 1, indexed \cup {imp})

\* An index that also lists embedded rules.
Skipped_Never(r) == FALSE

\* The test of line 211: embedded rules are left out of the import index.
Skipped(r) == r.embedded

\* The outer loop of buildImportIndex over ix.rules, from position i on.
RECURSIVE buildImportIndexLoop(_, _, _)
buildImportIndexLoop(im, rs, i) ==
    IF i > Len(rs) THEN im
    ELSE IF Skipped(rs[i]) THEN buildImportIndexLoop(im, rs, i + 1)
    ELSE buildImportIndexLoop(indexImports(im, rs, i, 1, {}), rs, i + 1)

\* An index build that appends to the importMap already there (line 209
\* left out).
buildImportIndex_NoReset(rs) == buildImportIndexLoop(importMap, rs, 1)

buildImportIndex(rs) == buildImportIndexLoop(EmptyMap, rs, 1)

Finish ==
    /\ ~aborted
    /\ LET rs == FinishLoop(rules, labelMap, 1) IN
       /\ rules' = rs
       /\ importMap' = buildImportIndex(rs)
    /\ didFinish' = TRUE
    /\ call' = [op |-> "Finish", again |-> didFinish]
    /\ UNCHANGED <<labelMap, crossResolvers, aborted>>

(***************************************************************************)
(* Queries                                                                 *)
(***************************************************************************)

\* A query that keeps the matches of every language.
LangMatches_Always(m, lang) == TRUE

\* The test of line 258: a match is kept when its language is the query's.
LangMatches(m, lang) == m.lang = lang

\* The loop of FindRulesByImport over matches, from element k on.
RECURSIVE findLoop(_, _, _, _, _)
findLoop(rs, matches, lang, k, results) ==
    IF k > Len(matches) THEN results
    ELSE
      LET m == rs[matches[k]] IN
      IF ~LangMatches(m, lang) THEN findLoop(rs, matches, lang, k + 1, results)
      ELSE findLoop(rs, matches, lang, k + 1,
                    Append(results, [Label |-> m.label, Embeds |-> m.embeds]))

FindRulesByImportOf(rs, im, imp, lang) ==
    findLoop(rs, MapGet(im, imp, <<>>), lang, 1, <<>>)

FindRulesByImport(imp, lang) == FindRulesByImportOf(rules, importMap, imp, lang)

QueryLangs == {"go", "proto"}

\* A query that filters the bucket in place (results := matches[:0]): the
\* kept records overwrite the front of the bucket in importMap.
FindRulesByImportCall_InPlace(imp, lang) ==
    /\ ~aborted
    /\ didFinish
    /\ call' = [op |-> "FindRulesByImport", imp |-> imp, lang |-> lang,
                results |-> FindRulesByImport(imp, lang)]
    /\ LET bucket == MapGet(importMap, imp, <<>>)
           Kept(i) == LangMatches(rules[i], lang)
           kept == SelectSeq(bucket, Kept)
       IN importMap' =
            IF imp \in DOMAIN importMap
            THEN [importMap EXCEPT
                    ![imp] = kept \o SubSeq(bucket, Len(kept) + 1, Len(bucket))]
            ELSE importMap
    /\ UNCHANGED <<rules, labelMap, crossResolvers, didFinish, aborted>>

\* Queries are made once Finish has returned ("Finish must be called after
\* all AddRule calls and before any FindRulesByImport calls").
FindRulesByImportCall(imp, lang) ==
    /\ ~aborted
    /\ didFinish
    /\ call' = [op |-> "FindRulesByImport", imp |-> imp, lang |-> lang,
                results |-> FindRulesByImport(imp, lang)]
    /\ UNCHANGED <<rules, labelMap, importMap, crossResolvers, didFinish, aborted>>

\* What a CrossResolver may return from CrossResolve: nothing, or one result
\* naming a rule of its own.
CrossOutputs(cr) ==
    {<<>>, <<[Label |-> LabelNew("ext", cr.name, "lib"), Embeds |-> <<>>]>>}

\* The loop of FindRulesByImportWithConfig over ix.crossResolvers, from
\* element k on; outs[k] is what crossResolvers[k].CrossResolve returns and
\* calls is the sequence of invocations made so far.
RECURSIVE crossLoop(_, _, _, _, _)
crossLoop(crs, outs, k, results, calls) ==
    IF k > Len(crs) THEN [results |-> results, calls |-> calls]
    ELSE crossLoop(crs, outs, k + 1, results \o outs[k],
                   Append(calls, [cr |-> crs[k], out |-> outs[k]]))

\* A query that calls the CrossResolvers whatever the direct lookup found.
FindRulesByImportWithConfigOf_AlwaysCross(crs, outs, direct) ==
    crossLoop(crs, outs, 1, direct, <<>>)

FindRulesByImportWithConfigOf(crs, outs, direct) ==
    IF Len(direct) > 0 THEN [results |-> direct, calls |-> <<>>]
    ELSE crossLoop(crs, outs, 1, direct, <<>>)

CrossOutputChoices(crs) ==
    {outs \in [1..Len(crs) -> UNION {CrossOutputs(crs[k]) : k \in 1..Len(crs)}] :
        \A k \in 1..Len(crs) : outs[k] \in CrossOutputs(crs[k])}

FindRulesByImportWithConfig(c, imp, lang) ==
    /\ ~aborted
    /\ didFinish
    /\ \E outs \in CrossOutputChoices(crossResolvers) :
         LET res == FindRulesByImportWithConfigOf(crossResolvers, outs,
                                                  FindRulesByImport(imp, lang))
         IN call' = [op |-> "FindRulesByImportWithConfig", imp |-> imp,
                     lang |-> lang, results |-> res.results, calls |-> res.calls]
    /\ UNCHANGED <<rules, labelMap, importMap, crossResolvers, didFinish, aborted>>

\* label.Label.Equal: the two labels agree in every field.
LabelEqual(l, other) ==
    /\ l.Repo = other.Repo
    /\ l.Pkg = other.Pkg
    /\ l.Name = other.Name
    /\ l.Relative = other.Relative

\* The loop of IsSelfImport over r.Embeds, from element k on.
RECURSIVE isSelfImportLoop(_, _, _)
isSelfImportLoop(embeds, from, k) ==
    IF k > Len(embeds) THEN FALSE
    ELSE IF LabelEqual(from, embeds[k]) THEN TRUE
    ELSE isSelfImportLoop(embeds, from, k + 1)

\* A test that looks at the result's label only.
IsSelfImport_LabelOnly(r, from) == LabelEqual(from, r.Label)

IsSelfImport(r, from) ==
    IF LabelEqual(from, r.Label) THEN TRUE
    ELSE isSelfImportLoop(r.Embeds, from, 1)

\* The labels a caller asks IsSelfImport about: the rules' labels, and b's
\* as it is written inside its package.
FromLabels == {LabelNew(RepoName, "p", n) : n \in Names} \cup {LabelRel("b")}

\* IsSelfImport on a result of the FindRulesByImport call just made.
IsSelfImportCall(k, from) ==
    /\ ~aborted
    /\ didFinish
    /\ call.op = "FindRulesByImport"
    /\ k \in 1..Len(call.results)
    /\ call' = [op |-> "IsSelfImport", result |-> call.results[k],
                from |-> from, value |-> IsSelfImport(call.results[k], from)]
    /\ UNCHANGED <<rules, labelMap, importMap, crossResolvers, didFinish, aborted>>

\* The arguments of the AddRule calls. After Finish the call panics before it
\* looks at them, so one argument triple stands for all of them.
AllAddRuleArgs == [c : Configs, r : RuleSet, f : Files]

AddRuleArgs ==
    IF didFinish THEN {CHOOSE a \in AllAddRuleArgs : TRUE} ELSE AllAddRuleArgs

QueryConfig == CHOOSE c \in Configs : c.Langs = <<>>

(***************************************************************************)
(* Specification                                                           *)
(***************************************************************************)
Next ==
    \/ \E a \in AddRuleArgs : AddRule(a.c, a.r, a.f)
    \/ Finish
    \/ \E imp \in ImportSpecs, lang \in QueryLangs : FindRulesByImportCall(imp, lang)
    \/ \E imp \in ImportSpecs, lang \in QueryLangs :
         FindRulesByImportWithConfig(QueryConfig, imp, lang)
    \/ \E k \in 1..MaxRules, from \in FromLabels : IsSelfImportCall(k, from)

Spec == Init /\ [][Next]_vars

(***************************************************************************)
(* Properties                                                              *)
(***************************************************************************)
Idx == 1..Len(rules)

\* Label e, written in the rule labelled from, is the label of rule j (it
\* may be written relative to from's package).
Denotes(e, from, j) == Abs(e, from.Repo, from.Pkg) = rules[j].label

\* Rule i names rule j in its Embeds list (directly).
EmbedsRule(i, j) ==
    LET r == rules[i]
        embedLabels == Embeds(mrslv(r.rule, r.file.Pkg), r.rule, r.label)
    IN \E k \in 1..Len(embedLabels) : Denotes(embedLabels[k], r.label, j)

\* The two rules' providers have the same language name.
SameLang(i, j) ==
    Name(mrslv(rules[i].rule, rules[i].file.Pkg))
      = Name(mrslv(rules[j].rule, rules[j].file.Pkg))

\* Some indexed rule of the same language embeds rule j.
EmbeddedBySameLang(j) == \E i \in Idx : EmbedsRule(i, j) /\ SameLang(i, j)

\* The ImportSpecs rule i's provider returned from Imports.
Declared(i) ==
    LET r == rules[i]
    IN Range(Imports(mrslv(r.rule, r.file.Pkg), QueryConfig, r.rule, r.file).elems)

OnlyDeclaredBy(s, j) ==
    /\ s \in Declared(j)
    /\ \A i \in Idx \ {j} : s \notin Declared(i)

ResultLabels(imp, lang) ==
    {res.Label : res \in Range(FindRulesByImport(imp, lang))}

\* C1 as stated: if indexed rule A embeds indexed rule B of the same language,
\* then after Finish a query for an ImportSpec that only B declared, in that
\* language, has a result whose Label is A and whose Embeds holds B's label
\* (as A's provider wrote it).
C1_Original ==
    didFinish =>
      \A a \in Idx, b \in Idx :
        (a # b /\ EmbedsRule(a, b) /\ SameLang(a, b)) =>
          \A s \in ImportSpecs :
            OnlyDeclaredBy(s, b) =>
              \E res \in Range(FindRulesByImport(s, rules[a].lang)) :
                 /\ res.Label = rules[a].label
                 /\ \E e \in Range(res.Embeds) : Denotes(e, res.Label, b)

\* C1 amended: the same, provided no indexed rule of A's language embeds A
\* (A itself included).
C1_EmbedderReturned ==
    didFinish =>
      \A a \in Idx, b \in Idx :
        (EmbedsRule(a, b) /\ SameLang(a, b) /\ ~EmbeddedBySameLang(a)) =>
          \A s \in ImportSpecs :
            OnlyDeclaredBy(s, b) =>
              \E res \in Range(FindRulesByImport(s, rules[a].lang)) :
                 /\ res.Label = rules[a].label
                 /\ \E e \in Range(res.Embeds) : Denotes(e, res.Label, b)

C1_Witness ==
    /\ didFinish
    /\ \E a \in Idx, b \in Idx, s \in ImportSpecs :
         /\ a # b
         /\ EmbedsRule(a, b) /\ SameLang(a, b) /\ ~EmbeddedBySameLang(a)
         /\ OnlyDeclaredBy(s, b)
         /\ rules[a].label \in ResultLabels(s, rules[a].lang)

\* C2: after Finish a rule that an indexed rule of its language embeds is the
\* Label of no result, for any ImportSpec and query language, and every
\* record in importMap has its embedded flag false.
C2_EmbeddedNeverReturned ==
    didFinish =>
      /\ \A b \in Idx :
           EmbeddedBySameLang(b) =>
             \A imp \in ImportSpecs, lang \in QueryLangs :
               rules[b].label \notin ResultLabels(imp, lang)
      /\ \A imp \in DOMAIN importMap :
           \A i \in Range(importMap[imp]) : ~rules[i].embedded

C2_Witness ==
    /\ didFinish
    /\ \E a \in Idx, b \in Idx, imp \in ImportSpecs :
         /\ a # b /\ EmbedsRule(a, b) /\ SameLang(a, b)
         /\ imp \in Declared(b)
         /\ rules[b].embedded
         /\ rules[a].label \in ResultLabels(imp, rules[a].lang)


\* Rule i's provider returned a non-nil list from Imports.
Importable(i) ==
    LET r == rules[i]
    IN ~Imports(mrslv(r.rule, r.file.Pkg), QueryConfig, r.rule, r.file).isNil

\* Rule i names in its Embeds list a label that no indexed rule has.
HasUnindexedEmbed(i) ==
    LET r == rules[i]
        embedLabels == Embeds(mrslv(r.rule, r.file.Pkg), r.rule, r.label)
    IN \E k \in 1..Len(embedLabels) :
          Abs(embedLabels[k], r.label.Repo, r.label.Pkg) \notin DOMAIN labelMap

\* C3: an AddRule of a rule whose Imports is nil leaves rules and labelMap as
\* they were, so no record is a nil-imports rule, every result's Label after
\* Finish is that of a record whose Imports was not nil, and every import a
\* record holds was declared by an indexed rule.
C3_NilImportsNeverIndexed ==
    /\ [][(call'.op = "AddRule" /\ call'.nilImports)
            => (rules' = rules /\ labelMap' = labelMap)]_vars
    /\ [](\A i \in Idx : Importable(i))
    /\ [](didFinish =>
            \A imp \in ImportSpecs, lang \in QueryLangs :
              \A l \in ResultLabels(imp, lang) :
                \E i \in Idx : rules[i].label = l /\ Importable(i))
    /\ [](\A i \in Idx :
            Range(rules[i].importedAs) \subseteq UNION {Declared(j) : j \in Idx})

C3_Witness ==
    /\ didFinish
    /\ \E a \in Idx, imp \in ImportSpecs :
         /\ HasUnindexedEmbed(a)
         /\ rules[a].label \in ResultLabels(imp, rules[a].lang)

\* C4: labels are unique in rules and labelMap maps each to its record; a
\* registration, once made, keeps its place, its rule and its labelMap entry;
\* an AddRule that finds the label taken changes neither rules nor labelMap
\* and does not abort.
C4_FirstRegistrationKept ==
    /\ [](\A i \in Idx, j \in Idx : rules[i].label = rules[j].label => i = j)
    /\ [](/\ DOMAIN labelMap = {rules[i].label : i \in Idx}
          /\ \A i \in Idx : labelMap[rules[i].label] = i)
    /\ [][\A i \in Idx :
            /\ i <= Len(rules')
            /\ rules'[i].rule = rules[i].rule
            /\ rules'[i].label = rules[i].label
            /\ rules[i].label \in DOMAIN labelMap'
            /\ labelMap'[rules[i].label] = i]_vars
    /\ [][(call'.op = "AddRule" /\ call'.status = "duplicate")
            => (rules' = rules /\ labelMap' = labelMap /\ ~aborted')]_vars

C4_Witness ==
    /\ call.op = "AddRule"
    /\ call.status = "duplicate"
    /\ Len(rules) = 2

\* C5: once didFinish is set it stays set and no record is added; an AddRule
\* made then panics and leaves rules, labelMap and importMap as they were.
C5_NoAddAfterFinish ==
    [][didFinish =>
         /\ didFinish'
         /\ Len(rules') = Len(rules)
         /\ labelMap' = labelMap
         /\ (call'.op = "AddRule" =>
               /\ aborted'
               /\ call'.status = "panic"
               /\ rules' = rules
               /\ importMap' = importMap)]_vars

C5_Witness ==
    /\ didFinish
    /\ aborted
    /\ call.op = "AddRule" /\ call.status = "panic"
    /\ Len(rules) > 0

\* C6 as stated: an AddRule of a rule whose resolver the non-empty allow-list
\* leaves out records the rule (it is not skipped), without imports.
C6_Original ==
    (call.op = "AddRule" /\ call.excluded /\ call.status # "panic") =>
      /\ call.status \in {"added", "duplicate"}
      /\ call.status = "added" => rules[Len(rules)].importedAs = <<>>

\* C6 amended: such an AddRule skips the rule: it returns at the nil check
\* and leaves rules and labelMap as they were.
C6_ExcludedSkipped ==
    [][(call'.op = "AddRule" /\ call'.excluded /\ call'.status # "panic") =>
         /\ call'.status = "skipped"
         /\ rules' = rules
         /\ labelMap' = labelMap]_vars

C6_Witness ==
    /\ call.op = "AddRule"
    /\ call.excluded
    /\ ~call.nilImports
    /\ call.status = "skipped"
    /\ Len(rules) > 0

\* The labels rule i's provider returns from Embeds.
EmbedLabels(i) ==
    LET r == rules[i]
    IN Embeds(mrslv(r.rule, r.file.Pkg), r.rule, r.label)

\* C7: if indexed rule A embeds indexed rule B of another language, then
\* after Finish A's importedAs holds every ImportSpec B declared, B is marked
\* embedded only if a rule of B's own language embeds it, and A's embeds,
\* when A embeds no indexed rule of its own language, is just the list its
\* provider returned: the labels B embeds are not appended.
C7_CrossLanguageEmbed ==
    didFinish =>
      \A a \in Idx, b \in Idx :
        (EmbedsRule(a, b) /\ ~SameLang(a, b)) =>
          /\ Declared(b) \subseteq Range(rules[a].importedAs)
          /\ rules[b].embedded => EmbeddedBySameLang(b)
          /\ (\A j \in Idx : EmbedsRule(a, j) => ~SameLang(a, j))
               => rules[a].embeds = EmbedLabels(a)

C7_Witness ==
    /\ didFinish
    /\ \E a \in Idx, b \in Idx :
         /\ EmbedsRule(a, b) /\ ~SameLang(a, b)
         /\ Declared(b) # {}
         /\ ~rules[b].embedded
         /\ \E e \in Range(rules[b].embeds) : e \notin Range(rules[a].embeds)

\* The position in rules of the record with label l.
Position(l) == CHOOSE i \in Idx : rules[i].label = l

\* C8: after Finish the records of every importMap bucket, and the Labels of
\* every result list, are in the order in which AddRule registered them.
C8_RegistrationOrder ==
    didFinish =>
      /\ \A imp \in DOMAIN importMap :
           \A k1 \in 1..Len(importMap[imp]), k2 \in 1..Len(importMap[imp]) :
             k1 < k2 => importMap[imp][k1] < importMap[imp][k2]
      /\ \A imp \in ImportSpecs, lang \in QueryLangs :
           LET res == FindRulesByImport(imp, lang) IN
           \A k1 \in 1..Len(res), k2 \in 1..Len(res) :
             k1 < k2 => Position(res[k1].Label) < Position(res[k2].Label)

C8_Witness ==
    /\ didFinish
    /\ \E imp \in ImportSpecs, lang \in QueryLangs :
         Len(FindRulesByImport(imp, lang)) >= 2

RECURSIVE Flatten(_)
Flatten(seqs) == IF seqs = <<>> THEN <<>> ELSE Head(seqs) \o Flatten(Tail(seqs))

\* crossResolvers holds the extensions given to NewRuleIndex that implement
\* CrossResolver, in the order given.
InRegistrationOrder ==
    \E exts \in Exts :
      \E pos \in [1..Len(crossResolvers) -> 1..Len(exts)] :
        /\ \A k \in 1..Len(crossResolvers) : exts[pos[k]] = crossResolvers[k]
        /\ \A k1 \in 1..Len(crossResolvers), k2 \in 1..Len(crossResolvers) :
             k1 < k2 => pos[k1] < pos[k2]
        /\ \A m \in 1..Len(exts) :
             exts[m].cross => \E k \in 1..Len(crossResolvers) : pos[k] = m

\* C9: FindRulesByImportWithConfig returns the direct results and calls no
\* CrossResolver when the direct lookup finds a rule; otherwise it calls every
\* registered CrossResolver once, in registration order, and returns their
\* outputs concatenated in that order.
C9_CrossResolveFallback ==
    call.op = "FindRulesByImportWithConfig" =>
      LET direct == FindRulesByImport(call.imp, call.lang) IN
      IF Len(direct) > 0
      THEN call.results = direct /\ call.calls = <<>>
      ELSE /\ InRegistrationOrder
           /\ Len(call.calls) = Len(crossResolvers)
           /\ \A k \in 1..Len(crossResolvers) :
                call.calls[k].cr = crossResolvers[k]
           /\ call.results
                = Flatten([k \in 1..Len(call.calls) |-> call.calls[k].out])

C9_Witness ==
    /\ call.op = "FindRulesByImportWithConfig"
    /\ Len(FindRulesByImport(call.imp, call.lang)) = 0
    /\ Len(call.calls) = 2
    /\ Len(call.results) = 2
    /\ Len(rules) > 0

\* C10: after Finish, FindRulesByImport(imp, lang) returns, in the bucket's
\* order, one result for each record of imp's bucket whose lang is the query
\* language, with the record's label and embeds, and nothing else; imp.Lang
\* is not compared.
C10_LanguageFilter ==
    didFinish =>
      \A imp \in ImportSpecs, lang \in QueryLangs :
        LET bucket == MapGet(importMap, imp, <<>>)
            Kept(i) == rules[i].lang = lang
            kept == SelectSeq(bucket, Kept)
        IN FindRulesByImport(imp, lang)
             = [k \in 1..Len(kept) |->
                  [Label |-> rules[kept[k]].label, Embeds |-> rules[kept[k]].embeds]]

C10_Witness ==
    /\ didFinish
    /\ \E imp \in ImportSpecs, lang \in QueryLangs :
         /\ imp.Lang # lang
         /\ Len(FindRulesByImport(imp, lang)) > 0
         /\ Len(FindRulesByImport(imp, lang)) < Len(MapGet(importMap, imp, <<>>))

\* Rule i embeds rule j and both are of one language.
SameLangEdge(i, j) == EmbedsRule(i, j) /\ SameLang(i, j)

\* Rule j is reached from rule i over at least one and at most n embed edges
\* between rules of one language.
RECURSIVE ReachesIn(_, _, _)
ReachesIn(i, j, n) ==
    /\ n > 0
    /\ \/ SameLangEdge(i, j)
       \/ \E k \in Idx : SameLangEdge(i, k) /\ ReachesIn(k, j, n - 1)

Reaches(i, j) == ReachesIn(i, j, Len(rules))

\* Every result list a query can return from the index as it is.
AllResults ==
    UNION {Range(FindRulesByImport(imp, lang)) :
             imp \in ImportSpecs, lang \in QueryLangs}

\* C11: after Finish no result of FindRulesByImport, for any ImportSpec and
\* query language, has its own Label among its Embeds, whatever rules were
\* registered and whatever they embed (cycles and self-embeds included).
C11_EmbedsExcludesOwnLabel ==
    didFinish =>
      \A res \in AllResults :
        \A k \in 1..Len(res.Embeds) : res.Embeds[k] # res.Label

\* A result whose Embeds holds the label of a rule that embeds itself, directly
\* or through a cycle of rules of its language.
C11_Witness ==
    /\ didFinish
    /\ \E res \in AllResults, j \in Idx :
         /\ rules[j].label # res.Label
         /\ rules[j].label \in Range(res.Embeds)
         /\ Reaches(j, j)
         /\ ~EmbedsRule(j, j)

\* C12: IsSelfImport(result, from) is true exactly when from is the result's
\* Label or an element of the result's Embeds.
C12_IsSelfImportIff ==
    call.op = "IsSelfImport" =>
      call.value = (\/ call.from = call.result.Label
                    \/ \E e \in Range(call.result.Embeds) : call.from = e)

\* IsSelfImport answered true for a label that is not the result's own but
\* the last of several labels in its Embeds.
C12_Witness ==
    /\ call.op = "IsSelfImport"
    /\ call.value
    /\ call.from # call.result.Label
    /\ Len(call.result.Embeds) >= 2
    /\ call.from # call.result.Embeds[1]

QueryOps == {"FindRulesByImport", "FindRulesByImportWithConfig", "IsSelfImport"}

\* C13: once Finish has returned, a FindRulesByImport,
\* FindRulesByImportWithConfig or IsSelfImport call leaves rules (every
\* record's embeds, importedAs and embedded with it), labelMap and importMap
\* as they were, and what FindRulesByImport returns is what the index held
\* before the call, whatever queries were made before it.
C13_QueriesWriteNothing ==
    [][(didFinish /\ call'.op \in QueryOps) =>
         /\ rules' = rules
         /\ labelMap' = labelMap
         /\ importMap' = importMap
         /\ didFinish'
         /\ call'.op = "FindRulesByImport" =>
               call'.results = FindRulesByImport(call'.imp, call'.lang)
         /\ \A imp \in ImportSpecs, lang \in QueryLangs :
               FindRulesByImportOf(rules', importMap', imp, lang)
                 = FindRulesByImport(imp, lang)]_vars

\* An IsSelfImport call made after Finish on an index in which one bucket
\* holds rules of two languages.
C13_Witness ==
    /\ didFinish
    /\ call.op = "IsSelfImport"
    /\ \E imp \in DOMAIN importMap :
         \E i \in Range(importMap[imp]), j \in Range(importMap[imp]) :
           rules[i].lang # rules[j].lang

\* C14: Finish returns for every set of registered rules and every embed
\* relation among them: on every index the loop of Finish comes to an end
\* having run the body of collectEmbeds exactly once for each record; the
\* body has run for no record before Finish and never runs twice; a Finish
\* call ends with didFinish set.
C14_FinishTerminates ==
    /\ [](LET rs == FinishLoop(rules, labelMap, 1) IN
          /\ Len(rs) = Len(rules)
          /\ \A i \in Idx : rs[i].didCollectEmbeds /\ rs[i].bodyRuns = 1)
    /\ [](\A i \in Idx :
            /\ rules[i].bodyRuns <= 1
            /\ rules[i].didCollectEmbeds <=> rules[i].bodyRuns = 1)
    /\ [][call'.op = "Finish" =>
            /\ didFinish'
            /\ Len(rules') = Len(rules)
            /\ \A i \in 1..Len(rules') : rules'[i].bodyRuns = 1]_vars

\* Finish has returned on an index in which two rules embed each other and
\* a third embeds both.
C14_Witness ==
    /\ didFinish
    /\ call.op = "Finish"
    /\ \E i \in Idx, j \in Idx, k \in Idx :
         /\ i # j /\ i # k /\ j # k
         /\ EmbedsRule(i, j) /\ EmbedsRule(j, i)
         /\ EmbedsRule(k, i) /\ EmbedsRule(k, j)

\* Rule j is reached from rule i over at least one and at most n embed edges,
\* between rules of any languages.
RECURSIVE EmbedsIn(_, _, _)
EmbedsIn(i, j, n) ==
    /\ n > 0
    /\ \/ EmbedsRule(i, j)
       \/ \E k \in Idx : EmbedsRule(i, k) /\ EmbedsIn(k, j, n - 1)

TransitivelyEmbeds(i, j) == EmbedsIn(i, j, Len(rules))

\* C15 as stated: after Finish every label in a record's embeds is the label
\* of an indexed rule of the record's language that the record transitively
\* embeds; labels of embedded rules of another language and of embed targets
\* that are not in the index are not in embeds.
C15_EmbedsOwnLanguageOnly ==
    didFinish =>
      \A i \in Idx :
        \A k \in 1..Len(rules[i].embeds) :
          \E j \in Idx :
            /\ Denotes(rules[i].embeds[k], rules[i].label, j)
            /\ SameLang(i, j)
            /\ TransitivelyEmbeds(i, j)

\* No indexed rule embeds itself, directly or through other indexed rules.
Acyclic == \A i \in Idx : ~TransitivelyEmbeds(i, i)

Occurrences(i, s) ==
    Cardinality({k \in 1..Len(rules[i].importedAs) : rules[i].importedAs[k] = s})

\* C17: after Finish no importMap bucket holds the same record twice, also
\* when the record's importedAs holds the ImportSpec several times, and no
\* result list of FindRulesByImport holds the same Label twice.
C17_NoDuplicateInBucket ==
    didFinish =>
      /\ \A imp \in DOMAIN importMap :
           \A k1 \in 1..Len(importMap[imp]), k2 \in 1..Len(importMap[imp]) :
             importMap[imp][k1] = importMap[imp][k2] => k1 = k2
      /\ \A imp \in ImportSpecs, lang \in QueryLangs :
           LET res == FindRulesByImport(imp, lang) IN
           \A k1 \in 1..Len(res), k2 \in 1..Len(res) :
             res[k1].Label = res[k2].Label => k1 = k2

\* A rule is returned for an ImportSpec that it declared itself and also
\* inherited from two rules it embeds.
C17_Witness ==
    /\ didFinish
    /\ \E i \in Idx, s \in ImportSpecs :
         /\ s \in Declared(i)
         /\ Occurrences(i, s) >= 3
         /\ i \in Range(MapGet(importMap, s, <<>>))
         /\ rules[i].label \in ResultLabels(s, rules[i].lang)

\* C18: when the embed relation among the indexed rules is acyclic, after
\* Finish every ImportSpec s that the provider of an indexed rule X declared
\* is answered when queried in X's language: by X itself when no rule of its
\* language embeds X, and otherwise by a rule that no rule of its language
\* embeds and that reaches X over embed edges between rules of that language.
C18_NoDeclaredImportLost ==
    (didFinish /\ Acyclic) =>
      \A x \in Idx :
        \A s \in Declared(x) :
          LET found == ResultLabels(s, rules[x].lang) IN
          IF ~EmbeddedBySameLang(x)
          THEN rules[x].label \in found
          ELSE \E r \in Idx :
                 /\ ~EmbeddedBySameLang(r)
                 /\ Reaches(r, x)
                 /\ rules[r].label \in found

\* A chain of three rules of one language, registered with the embedding
\* rule first: the import only the last one declared is answered by the
\* first, which does not name the last in its own Embeds.
C18_Witness ==
    /\ didFinish /\ Acyclic
    /\ \E r \in Idx, k \in Idx, x \in Idx, s \in ImportSpecs :
         /\ r < k /\ k < x
         /\ SameLangEdge(r, k) /\ SameLangEdge(k, x) /\ ~EmbedsRule(r, x)
         /\ OnlyDeclaredBy(s, x)
         /\ ResultLabels(s, rules[x].lang) = {rules[r].label}

\* C19: a Finish call made after Finish has returned leaves every record as
\* it was (embeds, importedAs, embedded, and the count of collectEmbeds body
\* runs: every call returns at its guard), rebuilds importMap with the same
\* buckets in the same order, and so leaves the result list of every
\* FindRulesByImport query as it was.
C19_FinishIdempotent ==
    [][(didFinish /\ call'.op = "Finish") =>
         /\ call'.again
         /\ didFinish'
         /\ rules' = rules
         /\ labelMap' = labelMap
         /\ importMap' = importMap
         /\ \A imp \in ImportSpecs, lang \in QueryLangs :
               FindRulesByImportOf(rules', importMap', imp, lang)
                 = FindRulesByImport(imp, lang)]_vars

\* Finish was called a second time on an index with an embedded rule and a
\* bucket of two records.
C19_Witness ==
    /\ call.op = "Finish"
    /\ call.again
    /\ \E i \in Idx : rules[i].embedded
    /\ \E imp \in DOMAIN importMap : Len(importMap[imp]) >= 2

====
